---- MODULE Spec2Model ----
(***************************************************************************)
(* Street View archiver: URL -> coordinates -> (country, state) -> Google  *)
(* Doc.  The model follows src/street_view_archiver_public.py and          *)
(* src/hotkey.py.                                                          *)
(*                                                                         *)
(* Text is a sequence of one-character strings.  The document body is a    *)
(* sequence of characters indexed as the Docs API indexes it: the section  *)
(* break occupies index 0, so body index i is position i of the sequence;  *)
(* every paragraph ends with "\n" and the body always ends with one.       *)
(* A character carries its hyperlink (textStyle.link.url); the "\n" that   *)
(* ends a paragraph carries that paragraph's namedStyleType.               *)
(***************************************************************************)
EXTENDS Integers, Sequences, FiniteSets, TLC

VARIABLES
    doc,        \* the remote document body (shared by every archiver)
    calls,      \* number of archive_location calls made so far
    last,       \* the most recent archive_location call and what it did
    log,        \* the calls that submitted a batch, in arrival order
    nGet,       \* documents().get() calls issued
    nBatch,     \* documents().batchUpdate() calls issued
    pc,         \* position of the entry point (main)
    clip,       \* the string the trigger currently supplies (clipboard / tab)
    run,        \* what the entry point has done with its URL
    nGeo        \* geocoding requests issued

vars == <<doc, calls, last, log, nGet, nBatch, pc, clip, run, nGeo>>

-----------------------------------------------------------------------------
(* Bounds of the model *)

\* archive_location calls in one behaviour of Spec
MaxCalls == 3

-----------------------------------------------------------------------------
(* Text helpers *)

NL == "\n"
NoLink == <<>>
NoStyle == "-"

\* whitespace removed by str.strip() that can occur in this model's text
Whitespace == {" ", "\n"}

RECURSIVE Pow10(_)
Pow10(n) == IF n = 0 THEN 1 ELSE 10 * Pow10(n - 1)

DigitChar(d) == CASE d = 0 -> "0" [] d = 1 -> "1" [] d = 2 -> "2" [] d = 3 -> "3"
                  [] d = 4 -> "4" [] d = 5 -> "5" [] d = 6 -> "6" [] d = 7 -> "7"
                  [] d = 8 -> "8" [] d = 9 -> "9"

Digits == {"0", "1", "2", "3", "4", "5", "6", "7", "8", "9"}

DigitVal(c) == CHOOSE d \in 0..9 : DigitChar(d) = c

\* decimal digits of a natural number, no padding ("%d")
RECURSIVE NatStr(_)
NatStr(n) == IF n < 10 THEN <<DigitChar(n)>>
             ELSE NatStr(n \div 10) \o <<DigitChar(n % 10)>>

\* the low w decimal digits of n, zero padded
RECURSIVE PadStr(_, _)
PadStr(n, w) == IF w = 0 THEN <<>>
                ELSE PadStr(n \div 10, w - 1) \o <<DigitChar(n % 10)>>

\* needle occurs in hay as a contiguous substring (Python's "in" on str)
Contains(hay, needle) ==
    \E i \in 0..(Len(hay) - Len(needle)) :
        \A j \in 1..Len(needle) : hay[i + j] = needle[j]

\* str.strip(): drop leading and trailing whitespace
RECURSIVE LStrip(_)
LStrip(s) == IF s # <<>> /\ Head(s) \in Whitespace THEN LStrip(Tail(s)) ELSE s

RECURSIVE RStrip(_)
RStrip(s) == IF s # <<>> /\ s[Len(s)] \in Whitespace
             THEN RStrip(SubSeq(s, 1, Len(s) - 1)) ELSE s

Strip(s) == RStrip(LStrip(s))

-----------------------------------------------------------------------------
(* Floats.  A float is [neg, mag]: its sign bit and its magnitude in units *)
(* of 10^-7.          Decimal strings of up to 15 significant digits are  *)
(* represented exactly enough by a double that parsing and "%.6f" act on   *)
(* the decimal value; inputs whose seventh decimal is 5 (a tie decided by  *)
(* the binary expansion) are not drawn.                                    *)

Float(neg, mag) == [neg |-> neg, mag |-> mag]

\* f"{x:.6f}": sign (kept for -0.0), integer part, ".", six rounded decimals
Fmt6(x) ==
    LET r == (x.mag + 5) \div 10
    IN  (IF x.neg THEN <<"-">> ELSE <<>>)
        \o NatStr(r \div 1000000) \o <<".">> \o PadStr(r % 1000000, 6)

\* f"{lat:.6f}, {lon:.6f}"
CoordStr(lat, lon) == Fmt6(lat) \o <<",", " ">> \o Fmt6(lon)

-----------------------------------------------------------------------------
(* The document service (Google Docs API v1), as the archiver uses it.     *)

\* a new document: one empty NORMAL_TEXT paragraph at index 1
EmptyDoc == << [ch |-> NL, link |-> NoLink, style |-> "NORMAL_TEXT"] >>

NLPositions(d) == {i \in 1..Len(d) : d[i].ch = NL}

\* start index of the paragraph that position i lies in
ParaStartOf(d, i) ==
    LET before == {j \in NLPositions(d) : j < i}
    IN  IF before = {} THEN 1
        ELSE (CHOOSE j \in before : \A k \in before : k <= j) + 1

\* position of the "\n" ending the paragraph that position i lies in
ParaEndOf(d, i) ==
    CHOOSE j \in NLPositions(d) : j >= i /\ \A k \in NLPositions(d) : k >= i => j <= k

RECURSIVE SortedSeq(_)
SortedSeq(S) ==
    IF S = {} THEN <<>>
    ELSE LET m == CHOOSE x \in S : \A y \in S : x <= y
         IN  <<m>> \o SortedSeq(S \ {m})

TextOf(d, s, e) == [i \in 1..(e - s + 1) |-> d[s + i - 1].ch]

\* documents().get(): body.content as the ordered paragraph elements (the
\* leading sectionBreak element has no "paragraph" key and is skipped by both
\* scans); text is the concatenation of the paragraph's textRun contents
Paragraphs(d) ==
    LET ends == SortedSeq(NLPositions(d))
    IN  [k \in 1..Len(ends) |->
            LET s == IF k = 1 THEN 1 ELSE ends[k - 1] + 1
            IN  [startIndex |-> s,
                 endIndex   |-> ends[k] + 1,
                 text       |-> TextOf(d, s, ends[k]),
                 style      |-> d[ends[k]].style]]

\* the three request kinds of a batch, in one record shape
InsertTextReq(index, text) ==
    [op |-> "insertText", startIndex |-> index, endIndex |-> index,
     text |-> text, style |-> NoStyle, url |-> NoLink]

ParagraphStyleReq(s, e, style) ==
    [op |-> "updateParagraphStyle", startIndex |-> s, endIndex |-> e,
     text |-> <<>>, style |-> style, url |-> NoLink]

TextStyleReq(s, e, url) ==
    [op |-> "updateTextStyle", startIndex |-> s, endIndex |-> e,
     text |-> <<>>, style |-> NoStyle, url |-> url]

\* a request the service accepts: text goes inside an existing paragraph
\* (before the body's final newline at the latest), a range is non-empty and
\* lies in the body
ValidReq(d, r) ==
    IF r.op = "insertText"
    THEN r.startIndex >= 1 /\ r.startIndex <= Len(d)
    ELSE r.startIndex >= 1 /\ r.startIndex < r.endIndex /\ r.endIndex <= Len(d) + 1

\* insertText: characters from index on move right; every inserted newline
\* starts a new paragraph whose style is copied from the paragraph at the
\* insertion index; the inserted text takes the text style (here: the link)
\* of the text immediately before the insertion index
InsertText(d, index, text) ==
    LET st  == d[ParaEndOf(d, index)].style
        lk  == IF index > 1 THEN d[index - 1].link ELSE NoLink
        new == [i \in 1..Len(text) |->
                   [ch |-> text[i], link |-> lk,
                    style |-> IF text[i] = NL THEN st ELSE NoStyle]]
    IN  SubSeq(d, 1, index - 1) \o new \o SubSeq(d, index, Len(d))

\* updateParagraphStyle: every paragraph overlapping [s, e) gets the style
UpdateParagraphStyle(d, s, e, style) ==
    [i \in 1..Len(d) |->
        IF d[i].ch = NL /\ i >= s /\ ParaStartOf(d, i) < e
        THEN [d[i] EXCEPT !.style = style] ELSE d[i]]

\* updateTextStyle with fields = link: every character of [s, e) gets the link
UpdateTextStyle(d, s, e, url) ==
    [i \in 1..Len(d) |->
        IF i >= s /\ i < e THEN [d[i] EXCEPT !.link = url] ELSE d[i]]

ApplyReq(d, r) ==
    CASE r.op = "insertText"           -> InsertText(d, r.startIndex, r.text)
      [] r.op = "updateParagraphStyle" ->
             UpdateParagraphStyle(d, r.startIndex, r.endIndex, r.style)
      [] r.op = "updateTextStyle"      ->
             UpdateTextStyle(d, r.startIndex, r.endIndex, r.url)

\* documents().batchUpdate(): the requests are applied in order, each against
\* the result of the ones before it; one invalid request rejects the batch
\* and nothing is applied
RECURSIVE ApplyBatch(_, _)
ApplyBatch(d, reqs) ==
    IF reqs = <<>> THEN [ok |-> TRUE, doc |-> d]
    ELSE IF ~ValidReq(d, Head(reqs)) THEN [ok |-> FALSE, doc |-> d]
    ELSE ApplyBatch(ApplyReq(d, Head(reqs)), Tail(reqs))

BatchUpdate(d, reqs) ==
    LET r == ApplyBatch(d, reqs)
    IN  IF r.ok THEN r ELSE [ok |-> FALSE, doc |-> d]

-----------------------------------------------------------------------------
(* StreetViewArchiver: the duplicate check and archive_location            *)

NoIndex == -1

\* (mutation of LocationExists: the coordinate test is lost)
LocationExistsUrlOnly(d, lat, lon, url) ==
    \E k \in 1..Len(Paragraphs(d)) : Contains(Paragraphs(d)[k].text, url)

\* location_exists_in_doc: some paragraph's text contains the formatted
\* coordinates or the url
LocationExists(d, lat, lon, url) ==
    LET content     == Paragraphs(d)
        search_text == CoordStr(lat, lon)
    IN  \E k \in 1..Len(content) :
            Contains(content[k].text, search_text) \/ Contains(content[k].text, url)

\* (mutation of ScanStep: the state anchor is the paragraph's end)
ScanStepStateEnd(acc, element, country, state) ==
    IF Strip(element.text) = country
    THEN [acc EXCEPT !.country_index = element.startIndex]
    ELSE IF Strip(element.text) = state
    THEN [acc EXCEPT !.state_index = element.endIndex]
    ELSE acc

\* one iteration of the header search: if / elif on the stripped text
ScanStep(acc, element, country, state) ==
    IF Strip(element.text) = country
    THEN [acc EXCEPT !.country_index = element.startIndex]
    ELSE IF Strip(element.text) = state
    THEN [acc EXCEPT !.state_index = element.startIndex]
    ELSE acc

\* the header search over all paragraphs in document order: later matches
\* overwrite earlier ones
RECURSIVE ScanFrom(_, _, _, _, _)
ScanFrom(content, k, acc, country, state) ==
    IF k > Len(content) THEN acc
    ELSE ScanFrom(content, k + 1, ScanStep(acc, content[k], country, state),
                  country, state)

FindHeaders(d, country, state) ==
    ScanFrom(Paragraphs(d), 1,
             [country_index |-> NoIndex, state_index |-> NoIndex], country, state)

\* requests for a missing country header
CountryRequests(country) ==
    << InsertTextReq(1, country \o <<NL>>),
       ParagraphStyleReq(1, Len(country) + 2, "HEADING_1") >>

\* (mutation of StateInsertIndex: the heading's newline is not counted)
StateInsertIndexNoNewline(country_index, country) == country_index + Len(country)

StateInsertIndex(country_index, country) == country_index + Len(country) + 1

\* requests for a missing state header
StateRequests(state_insert_index, state) ==
    << InsertTextReq(state_insert_index, state \o <<NL>>),
       ParagraphStyleReq(state_insert_index,
                         state_insert_index + Len(state) + 1, "HEADING_2") >>

CoordText(lat, lon) == CoordStr(lat, lon) \o <<NL>>

CoordIndex(state_index, state) == state_index + Len(state) + 1

\* requests for the hyperlinked coordinate line
CoordRequests(coord_index, coord_text, url) ==
    << InsertTextReq(coord_index, coord_text),
       TextStyleReq(coord_index, coord_index + Len(Strip(coord_text)), url),
       ParagraphStyleReq(coord_index, coord_index + Len(coord_text),
                         "NORMAL_TEXT") >>

\* the request list archive_location builds from the header search's result
BuildRequests(found, url, lat, lon, country, state) ==
    LET noCountry     == found.country_index = NoIndex
        country_index == IF noCountry THEN 1 ELSE found.country_index
        noState       == found.state_index = NoIndex
        state_insert_index == StateInsertIndex(country_index, country)
        state_index   == IF noState THEN state_insert_index ELSE found.state_index
        coord_text    == CoordText(lat, lon)
        coord_index   == CoordIndex(state_index, state)
    IN  (IF noCountry THEN CountryRequests(country) ELSE <<>>)
        \o (IF noState THEN StateRequests(state_insert_index, state) ELSE <<>>)
        \o CoordRequests(coord_index, coord_text, url)

Call(url, lat, lon, country, state, outcome, found, reqs) ==
    [url |-> url, lat |-> lat, lon |-> lon, country |-> country, state |-> state,
     outcome |-> outcome, found |-> found, requests |-> reqs]

NoCall == Call(<<>>, Float(FALSE, 0), Float(FALSE, 0), <<>>, <<>>, "None",
               [country_index |-> NoIndex, state_index |-> NoIndex], <<>>)

\* archive_location, one whole call with the document service answering:
\* duplicate check (one get), then header search (a second get), request
\* building and one batchUpdate
ArchiveLocation(url, lat, lon, country, state) ==
    IF LocationExists(doc, lat, lon, url)
    THEN /\ last' = Call(url, lat, lon, country, state, "SkippedDuplicate",
                         [country_index |-> NoIndex, state_index |-> NoIndex], <<>>)
         /\ nGet' = nGet + 1
         /\ UNCHANGED <<doc, log, nBatch>>
    ELSE LET found == FindHeaders(doc, country, state)
             reqs  == BuildRequests(found, url, lat, lon, country, state)
             res   == BatchUpdate(doc, reqs)
             c     == Call(url, lat, lon, country, state,
                           IF res.ok THEN "Appended" ELSE "DocumentAccessError",
                           found, reqs)
         IN  /\ doc' = res.doc
             /\ last' = c
             /\ log' = IF res.ok THEN Append(log, c) ELSE log
             /\ nGet' = nGet + 2
             /\ nBatch' = nBatch + 1

-----------------------------------------------------------------------------
(* StreetViewArchiver.extract_coordinates                                  *)

\* first position >= p of s that holds no digit (Len(s) + 1 if none): the end
\* of a greedy \d* from p
RECURSIVE DigitRunEnd(_, _)
DigitRunEnd(s, p) ==
    IF p <= Len(s) /\ s[p] \in Digits THEN DigitRunEnd(s, p + 1) ELSE p

NoMatch == [ok |-> FALSE, from |-> 0, to |-> 0]

\* -?\d+\.\d+ matched at position p: the span [from, to) it takes.  Each \d+
\* is followed in both patterns by a non-digit or by the pattern's end, so
\* only the longest digit runs can match.
MatchNumber(s, p) ==
    LET p1 == IF p <= Len(s) /\ s[p] = "-" THEN p + 1 ELSE p
        e1 == DigitRunEnd(s, p1)
        e2 == DigitRunEnd(s, e1 + 1)
    IN  IF e1 > p1 /\ e1 <= Len(s) /\ s[e1] = "." /\ e2 > e1 + 1
        THEN [ok |-> TRUE, from |-> p, to |-> e2]
        ELSE NoMatch

\* the literal lit stands in s at position p
LiteralAt(s, p, lit) ==
    /\ p >= 1
    /\ p + Len(lit) - 1 <= Len(s)
    /\ \A k \in 1..Len(lit) : s[p + k - 1] = lit[k]

\* a pattern  <lit1>(-?\d+\.\d+)<lit2>(-?\d+\.\d+)  matched at position i
MatchPairAt(s, i, lit1, lit2) ==
    LET g1 == MatchNumber(s, i + Len(lit1))
        g2 == MatchNumber(s, g1.to + Len(lit2))
    IN  IF LiteralAt(s, i, lit1) /\ g1.ok /\ LiteralAt(s, g1.to, lit2) /\ g2.ok
        THEN [ok |-> TRUE, group1 |-> SubSeq(s, g1.from, g1.to - 1),
                           group2 |-> SubSeq(s, g2.from, g2.to - 1)]
        ELSE [ok |-> FALSE, group1 |-> <<>>, group2 |-> <<>>]

\* re.search: the match at the leftmost position that has one
Search(s, lit1, lit2) ==
    LET hits == {i \in 1..Len(s) : MatchPairAt(s, i, lit1, lit2).ok}
    IN  IF hits = {} THEN [ok |-> FALSE, group1 |-> <<>>, group2 |-> <<>>]
        ELSE MatchPairAt(s, CHOOSE i \in hits : \A j \in hits : i <= j, lit1, lit2)

\* value of a digit string
RECURSIVE NatVal(_)
NatVal(ds) == IF ds = <<>> THEN 0
              ELSE 10 * NatVal(SubSeq(ds, 1, Len(ds) - 1)) + DigitVal(ds[Len(ds)])

\* float() of a text matched by -?\d+\.\d+ (it cannot raise on such a text),
\* for up to seven decimals
ParseFloat(t) ==
    LET neg  == t[1] = "-"
        u    == IF neg THEN Tail(t) ELSE t
        dot  == CHOOSE k \in 1..Len(u) : u[k] = "."
        ip   == SubSeq(u, 1, dot - 1)
        fp   == SubSeq(u, dot + 1, Len(u))
    IN  Float(neg, NatVal(ip) * Pow10(7) + NatVal(fp) * Pow10(7 - Len(fp)))

\* r"@(-?\d+\.\d+),(-?\d+\.\d+)"
PatternAt == << <<"@">>, <<",">> >>

\* r"!3d(-?\d+\.\d+)!4d(-?\d+\.\d+)"
PatternBang == << <<"!", "3", "d">>, <<"!", "4", "d">> >>

\* (mutation of Patterns: the !3d...!4d form is tried first)
PatternsBangFirst == <<PatternBang, PatternAt>>

\* the patterns in the order they are tried
Patterns == <<PatternAt, PatternBang>>

ExtractionFailed == [ok |-> FALSE, lat |-> Float(FALSE, 0), lon |-> Float(FALSE, 0)]

\* the loop over the patterns from the k-th on: the first that matches gives
\* the pair; none matching raises ValueError
RECURSIVE ExtractFrom(_, _, _)
ExtractFrom(url, patterns, k) ==
    IF k > Len(patterns) THEN ExtractionFailed
    ELSE LET m == Search(url, patterns[k][1], patterns[k][2])
         IN  IF m.ok
             THEN [ok |-> TRUE, lat |-> ParseFloat(m.group1), lon |-> ParseFloat(m.group2)]
             ELSE ExtractFrom(url, patterns, k + 1)

ExtractCoordinates(url) == ExtractFrom(url, Patterns, 1)

-----------------------------------------------------------------------------
(* StreetViewArchiver.get_location_info                                    *)

Component(types, long_name) == [types |-> types, long_name |-> long_name]

\* what requests.get and the service answer: the HTTP outcome, the body's
\* status and the address components of each result
Response(http_ok, status, results) ==
    [http_ok |-> http_ok, status |-> status, results |-> results]

\* one iteration of the component loop: two independent ifs, no break
ComponentStep(acc, component) ==
    LET a1 == IF "country" \in component.types
              THEN [acc EXCEPT !.country = component.long_name] ELSE acc
    IN  IF "administrative_area_level_1" \in component.types
        THEN [a1 EXCEPT !.state = component.long_name] ELSE a1

RECURSIVE ComponentsFrom(_, _, _)
ComponentsFrom(components, k, acc) ==
    IF k > Len(components) THEN acc
    ELSE ComponentsFrom(components, k + 1, ComponentStep(acc, components[k]))

Resolved(error, country, state) == [error |-> error, country |-> country, state |-> state]

\* (mutation of GetLocationInfo: the result list is looked at before the
\* status of the answer)
GetLocationInfoResultsFirst(resp) ==
    IF ~resp.http_ok THEN Resolved("TransportError", <<>>, <<>>)
    ELSE IF resp.results = <<>> THEN Resolved("NoResultsError", <<>>, <<>>)
    ELSE IF resp.status # "OK" THEN Resolved("GeocodingError", <<>>, <<>>)
    ELSE LET acc == ComponentsFrom(resp.results[1], 1, [country |-> <<>>, state |-> <<>>])
         IN  IF acc.country = <<>> \/ acc.state = <<>>
             THEN Resolved("IncompleteLocationError", <<>>, <<>>)
             ELSE Resolved("none", acc.country, acc.state)

\* get_location_info on a response; <<>> stands for None and for ""
GetLocationInfo(resp) ==
    IF ~resp.http_ok THEN Resolved("TransportError", <<>>, <<>>)
    ELSE IF resp.status # "OK" THEN Resolved("GeocodingError", <<>>, <<>>)
    ELSE IF resp.results = <<>> THEN Resolved("NoResultsError", <<>>, <<>>)
    ELSE LET acc == ComponentsFrom(resp.results[1], 1, [country |-> <<>>, state |-> <<>>])
         IN  IF acc.country = <<>> \/ acc.state = <<>>
             THEN Resolved("IncompleteLocationError", <<>>, <<>>)
             ELSE Resolved("none", acc.country, acc.state)

-----------------------------------------------------------------------------
(* Inputs *)

MapsMarker == <<"g", "o", "o", "g", "l", "e", ".", "c", "o", "m", "/", "m", "a", "p", "s">>

Url1 == MapsMarker \o <<"/", "@", "1", ".", "0", ",", "2", ".", "0">>
Url2 == MapsMarker \o <<"/", "@", "9", ".", "5", ",", "2", ".", "0">>

ArchUrls == {Url1, Url2}

\* 1.0, 1.0000004 (formats like 1.0) and -37.5
ArchLats == {Float(FALSE, 10000000), Float(FALSE, 10000004), Float(TRUE, 375000000)}

\* 2.0
ArchLons == {Float(FALSE, 20000000)}

\* labels of different lengths; "A" is both a country and a state name
ArchCountries == {<<"A">>, <<"B", "B">>}
ArchStates == {<<"A">>, <<"S">>, <<"T", "T">>}

-----------------------------------------------------------------------------
(* Spec: one archiver, a sequence of archive_location calls on a document  *)
(* that starts empty                                                       *)

Init ==
    /\ doc = EmptyDoc
    /\ calls = 0
    /\ last = NoCall
    /\ log = <<>>
    /\ nGet = 0
    /\ nBatch = 0
    /\ pc = "archiver"
    /\ clip = <<>>
    /\ run = <<>>
    /\ nGeo = 0

Archive ==
    /\ pc = "archiver"
    /\ calls < MaxCalls
    /\ calls' = calls + 1
    /\ \E url \in ArchUrls, lat \in ArchLats, lon \in ArchLons,
          country \in ArchCountries, state \in ArchStates :
            ArchiveLocation(url, lat, lon, country, state)
    /\ UNCHANGED <<pc, clip, run, nGeo>>

Next == Archive

Spec == Init /\ [][Next]_vars

-----------------------------------------------------------------------------
(* SpecMain: one run of an entry point, main() of the clipboard watcher or  *)
(* main() of the hotkey script, against a document that is empty or holds  *)
(* one archived record                                                     *)

UrlBang == MapsMarker \o <<"/", "!", "3", "d", "-", "3", "7", ".", "5", "!", "4", "d", "2", ".", "0">>
UrlNoCoords == MapsMarker \o <<"/", "p", "l", "a", "c", "e">>

\* what the clipboard or the active tab can hold
MainClips ==
    { <<"h", "i">>,
      <<"@", "1", ".", "0", ",", "2", ".", "0">>,
      Url1,
      <<" ">> \o Url1 \o <<NL>>,
      UrlBang,
      UrlNoCoords }

\* the document after archive_location(Url1, 1.0, 2.0, "A", "S") on EmptyDoc
OneRecordDoc ==
    BatchUpdate(EmptyDoc,
                BuildRequests([country_index |-> NoIndex, state_index |-> NoIndex],
                              Url1, Float(FALSE, 10000000), Float(FALSE, 20000000),
                              <<"A">>, <<"S">>)).doc

MainDocs == {EmptyDoc, OneRecordDoc}

\* answers of the geocoding service
GeoResponses ==
    { Response(FALSE, "", <<>>),
      Response(TRUE, "REQUEST_DENIED", <<>>),
      Response(TRUE, "OK", <<>>),
      Response(TRUE, "OK",
               << << Component({"country", "political"}, <<"A">>) >> >>),
      Response(TRUE, "OK",
               << << Component({"locality", "political"}, <<"X">>),
                     Component({"administrative_area_level_1", "political"}, <<"S">>),
                     Component({"country", "political"}, <<"A">>) >>,
                  << Component({"administrative_area_level_1", "political"}, <<"T", "T">>),
                     Component({"country", "political"}, <<"B", "B">>) >> >>),
      Response(TRUE, "OK",
               << << Component({"administrative_area_level_1", "political"}, <<"S">>),
                     Component({"administrative_area_level_1", "political"}, <<"T", "T">>),
                     Component({"country", "political"}, <<"A">>),
                     Component({"country", "political"}, <<"B", "B">>) >> >>) }

InitMain ==
    /\ doc \in MainDocs
    /\ calls = 0
    /\ last = NoCall
    /\ log = <<>>
    /\ nGet = 0
    /\ nBatch = 0
    /\ pc = "poll"
    /\ clip \in MainClips
    /\ \E entry \in {"clipboard", "hotkey"} :
          run = [entry |-> entry, url |-> <<>>,
                 last_url_set |-> FALSE, last_url |-> <<>>,
                 lat |-> Float(FALSE, 0), lon |-> Float(FALSE, 0),
                 country |-> <<>>, state |-> <<>>,
                 extract |-> "-", resolve |-> "-", archive |-> "-",
                 nExtract |-> 0, nResolve |-> 0, nArchive |-> 0,
                 doc0 |-> doc]
    /\ nGeo = 0

\* the user copies something while the watcher polls
SetClipboard ==
    /\ pc = "poll"
    /\ run.entry = "clipboard"
    /\ \E s \in MainClips : clip' = s
    /\ UNCHANGED <<doc, calls, last, log, nGet, nBatch, pc, run, nGeo>>

\* (mutation of IsMapsUrl: every string passes the gate)
IsMapsUrlAny(url) == TRUE

\* the gate both entry points apply to the string
IsMapsUrl(url) == Contains(url, MapsMarker)

\* one turn of the watcher's loop: read and strip the clipboard; a maps URL
\* other than last_url enters the pipeline, anything else is slept over
Poll ==
    /\ pc = "poll"
    /\ run.entry = "clipboard"
    /\ LET url == Strip(clip)
       IN  IF (~run.last_url_set \/ url # run.last_url) /\ IsMapsUrl(url)
           THEN /\ pc' = "extract"
                /\ run' = [run EXCEPT !.url = url]
           ELSE UNCHANGED <<pc, run>>
    /\ UNCHANGED <<doc, calls, last, log, nGet, nBatch, clip, nGeo>>

\* the hotkey script reads the active tab once: get_active_browser_url gives
\* the URL, or None when the scripting call fails
HotkeyRead ==
    /\ pc = "poll"
    /\ run.entry = "hotkey"
    /\ \E got \in {TRUE, FALSE} :
          IF got /\ clip # <<>> /\ IsMapsUrl(clip)
          THEN /\ pc' = "extract"
               /\ run' = [run EXCEPT !.url = clip]
          ELSE /\ pc' = "done"
               /\ run' = run
    /\ UNCHANGED <<doc, calls, last, log, nGet, nBatch, clip, nGeo>>

\* (mutation of NextPc: the exception is swallowed and the run goes on)
NextPcSwallow(ok, next) == next

\* try / except Exception / break: a stage that raises ends the run
NextPc(ok, next) == IF ok THEN next ELSE "done"

Extract ==
    /\ pc = "extract"
    /\ LET r == ExtractCoordinates(run.url)
       IN  /\ run' = [run EXCEPT !.lat = r.lat, !.lon = r.lon,
                                 !.nExtract = @ + 1,
                                 !.extract = IF r.ok THEN "ok" ELSE "ExtractionError"]
           /\ pc' = NextPc(r.ok, "resolve")
    /\ UNCHANGED <<doc, calls, last, log, nGet, nBatch, clip, nGeo>>

Resolve ==
    /\ pc = "resolve"
    /\ nGeo' = nGeo + 1
    /\ \E resp \in GeoResponses :
          LET r == GetLocationInfo(resp)
          IN  /\ run' = [run EXCEPT !.country = r.country, !.state = r.state,
                                    !.nResolve = @ + 1,
                                    !.resolve = IF r.error = "none" THEN "ok" ELSE r.error]
              /\ pc' = NextPc(r.error = "none", "archive")
    /\ UNCHANGED <<doc, calls, last, log, nGet, nBatch, clip>>

\* archive_location with the document service answering
ArchiveCall ==
    /\ pc = "archive"
    /\ calls' = calls + 1
    /\ ArchiveLocation(run.url, run.lat, run.lon, run.country, run.state)
    /\ run' = [run EXCEPT !.nArchive = @ + 1, !.archive = last'.outcome]
    /\ pc' = "done"
    /\ UNCHANGED <<clip, nGeo>>

\* archive_location with a remote call raising: the first get, or for a
\* record that is no duplicate the second get or the batchUpdate, which then
\* applies nothing
ArchiveRaises ==
    /\ pc = "archive"
    /\ calls' = calls + 1
    /\ \E point \in 1..3 :
          /\ point > 1 => ~LocationExists(doc, run.lat, run.lon, run.url)
          /\ nGet' = nGet + (IF point = 1 THEN 1 ELSE 2)
          /\ nBatch' = nBatch + (IF point = 3 THEN 1 ELSE 0)
    /\ last' = Call(run.url, run.lat, run.lon, run.country, run.state,
                    "DocumentAccessError",
                    [country_index |-> NoIndex, state_index |-> NoIndex], <<>>)
    /\ run' = [run EXCEPT !.nArchive = @ + 1, !.archive = "DocumentAccessError"]
    /\ pc' = "done"
    /\ UNCHANGED <<doc, log, clip, nGeo>>

NextMain ==
    \/ SetClipboard
    \/ Poll
    \/ HotkeyRead
    \/ Extract
    \/ Resolve
    \/ ArchiveCall
    \/ ArchiveRaises

SpecMain == InitMain /\ [][NextMain]_vars

\* a stage that was entered ends: its call returns or raises, and control
\* moves on to the next stage or out of the try block
StageEnds ==
    /\ pc \in {"extract", "resolve", "archive"}
    /\ \E p \in {"resolve", "archive", "done"} : pc' = p /\ p # pc

\* the entry points are sequential programs whose calls come back (the
\* geocoding request carries a timeout, the document service answers)
SpecMainFair == SpecMain /\ WF_pc(StageEnds)

-----------------------------------------------------------------------------
(* SpecExtract: extract_coordinates applied to URLs assembled from an       *)
(* optional "@lat,lon" part and an optional "!3dlat!4dlon" part             *)

\* number texts with the value each denotes
NumTexts ==
    { [text |-> <<"1", ".", "5">>,                          value |-> Float(FALSE, 15000000)],
      [text |-> <<"-", "3", "7", ".", "7", "7", "4", "9">>, value |-> Float(TRUE, 377749000)],
      [text |-> <<"0", ".", "0", "0", "0", "0", "0", "0", "4">>, value |-> Float(FALSE, 4)] }

BangTexts ==
    { [text |-> <<"-", "1", "2", "2", ".", "0">>, value |-> Float(TRUE, 1220000000)],
      [text |-> <<"4", "4", ".", "2", "5">>,      value |-> Float(FALSE, 442500000)] }

\* the "@" part of a URL: absent, lacking its longitude, or a full pair
AtParts ==
    { [kind |-> "none", text |-> <<>>, lat |-> Float(FALSE, 0), lon |-> Float(FALSE, 0)] }
    \cup { [kind |-> "broken", text |-> <<"@">> \o a.text \o <<",", "z">>,
            lat |-> a.value, lon |-> Float(FALSE, 0)] : a \in NumTexts }
    \cup { [kind |-> "pair",
            text |-> <<"@">> \o a.text \o <<",">> \o b.text \o <<",", "3", "a">>,
            lat |-> a.value, lon |-> b.value] : a \in NumTexts, b \in NumTexts }

\* the "!3d...!4d" part of a URL: absent or a full pair
BangParts ==
    { [kind |-> "none", text |-> <<>>, lat |-> Float(FALSE, 0), lon |-> Float(FALSE, 0)] }
    \cup { [kind |-> "pair",
            text |-> <<"!", "3", "d">> \o c.text \o <<"!", "4", "d">> \o d.text,
            lat |-> c.value, lon |-> d.value] : c \in BangTexts, d \in BangTexts }

InitExtract ==
    /\ doc = EmptyDoc
    /\ calls = 0
    /\ last = NoCall
    /\ log = <<>>
    /\ nGet = 0
    /\ nBatch = 0
    /\ nGeo = 0
    /\ pc = "url"
    /\ \E at \in AtParts, bang \in BangParts, atFirst \in BOOLEAN :
          /\ clip = MapsMarker \o <<"/">>
                    \o (IF atFirst THEN at.text \o <<"/">> \o bang.text
                        ELSE bang.text \o <<"/">> \o at.text)
          /\ run = [at |-> at, bang |-> bang, atFirst |-> atFirst,
                    result |-> ExtractionFailed]

ExtractUrl ==
    /\ pc = "url"
    /\ pc' = "extracted"
    /\ run' = [run EXCEPT !.result = ExtractCoordinates(clip)]
    /\ UNCHANGED <<doc, calls, last, log, nGet, nBatch, clip, nGeo>>

NextExtract == ExtractUrl

SpecExtract == InitExtract /\ [][NextExtract]_vars

-----------------------------------------------------------------------------
(* SpecResolve: get_location_info applied to answers assembled from the     *)
(* HTTP outcome, the status of the body and the address components of the  *)
(* results                                                                 *)

GeoStatuses == {"OK", "ZERO_RESULTS", "REQUEST_DENIED"}

\* the components of one type in a result: none, one, or two with different
\* names; first and final name the first and the last of them
TypeParts(type, name1, name2) ==
    { [count |-> 0, components |-> <<>>, first |-> <<>>, final |-> <<>>],
      [count |-> 1, components |-> << Component({type, "political"}, name1) >>,
       first |-> name1, final |-> name1],
      [count |-> 2, components |-> << Component({type, "political"}, name1),
                                      Component({type, "political"}, name2) >>,
       first |-> name1, final |-> name2] }

CountryParts == TypeParts("country", <<"A">>, <<"B", "B">>)
StateParts == TypeParts("administrative_area_level_1", <<"S">>, <<"T", "T">>)

\* a later result of the answer, complete, with names of its own
OtherResult ==
    << Component({"administrative_area_level_1", "political"}, <<"U">>),
       Component({"country", "political"}, <<"C">>) >>

\* the result lists: empty, or a first result made of a locality and the
\* country and state parts in either order, alone or followed by OtherResult
ResultLists ==
    { [some |-> FALSE, c |-> c, a |-> a, results |-> <<>>]
        : c \in {p \in CountryParts : p.count = 0},
          a \in {p \in StateParts : p.count = 0} }
    \cup { [some |-> TRUE, c |-> c, a |-> a,
            results |->
                << << Component({"locality", "political"}, <<"X">>) >>
                   \o (IF countryFirst THEN c.components \o a.components
                       ELSE a.components \o c.components) >>
                \o (IF more THEN << OtherResult >> ELSE <<>>)]
            : c \in CountryParts, a \in StateParts,
              countryFirst \in BOOLEAN, more \in BOOLEAN }

InitResolve ==
    /\ doc = EmptyDoc
    /\ calls = 0
    /\ last = NoCall
    /\ log = <<>>
    /\ nGet = 0
    /\ nBatch = 0
    /\ nGeo = 0
    /\ clip = <<>>
    /\ pc = "response"
    /\ \E http_ok \in BOOLEAN, status \in GeoStatuses, rl \in ResultLists :
          run = [http_ok |-> http_ok, status |-> status, list |-> rl,
                 response |-> Response(http_ok, status, rl.results),
                 result |-> Resolved("-", <<>>, <<>>)]

ResolveResponse ==
    /\ pc = "response"
    /\ pc' = "resolved"
    /\ nGeo' = nGeo + 1
    /\ run' = [run EXCEPT !.result = GetLocationInfo(run.response)]
    /\ UNCHANGED <<doc, calls, last, log, nGet, nBatch, clip>>

NextResolve == ResolveResponse

SpecResolve == InitResolve /\ [][NextResolve]_vars

-----------------------------------------------------------------------------
(* SpecNear: one archiver as in Spec, fed coordinates whose texts contain   *)
(* one another: "7.774900, -122.419400" is the tail of                     *)
(* "37.774900, -122.419400"                                                *)

\* 7.7749 and 37.7749
NearLats == {Float(FALSE, 77749000), Float(FALSE, 377749000)}

\* -122.4194
NearLons == {Float(TRUE, 1224194000)}

NearStates == {<<"S">>}

InitNear ==
    /\ doc = EmptyDoc
    /\ calls = 0
    /\ last = NoCall
    /\ log = <<>>
    /\ nGet = 0
    /\ nBatch = 0
    /\ pc = "near"
    /\ clip = <<>>
    /\ run = <<>>
    /\ nGeo = 0

ArchiveNear ==
    /\ pc = "near"
    /\ calls < MaxCalls
    /\ calls' = calls + 1
    /\ \E url \in ArchUrls, lat \in NearLats, lon \in NearLons,
          country \in ArchCountries, state \in NearStates :
            ArchiveLocation(url, lat, lon, country, state)
    /\ UNCHANGED <<pc, clip, run, nGeo>>

NextNear == ArchiveNear

SpecNear == InitNear /\ [][NextNear]_vars

-----------------------------------------------------------------------------
(* SpecRace: two callers, each making one archive_location call on the same *)
(* document.  The three remote calls of archive_location are steps of      *)
(* their own, and the steps of the two callers interleave freely.          *)

Callers == {"c1", "c2"}

\* 1.0 and -37.5
RaceLats == {Float(FALSE, 10000000), Float(TRUE, 375000000)}

RaceStates == {<<"S">>}

\* a caller before its call
IdleCaller ==
    [stage |-> "idle", url |-> <<>>, lat |-> Float(FALSE, 0), lon |-> Float(FALSE, 0),
     country |-> <<>>, state |-> <<>>, seen |-> <<>>,
     found |-> [country_index |-> NoIndex, state_index |-> NoIndex],
     requests |-> <<>>, outcome |-> "-", stale |-> FALSE]

InitRace ==
    /\ doc = EmptyDoc
    /\ calls = 0
    /\ last = NoCall
    /\ log = <<>>
    /\ nGet = 0
    /\ nBatch = 0
    /\ nGeo = 0
    /\ clip = <<>>
    /\ pc = "race"
    /\ run = [p \in Callers |-> IdleCaller]

\* location_exists_in_doc: one get; a duplicate ends the call, anything else
\* goes on with what this read has shown
RaceCheck(p) ==
    /\ pc = "race"
    /\ run[p].stage = "idle"
    /\ calls' = calls + 1
    /\ nGet' = nGet + 1
    /\ \E url \in ArchUrls, lat \in RaceLats, lon \in ArchLons,
          country \in ArchCountries, state \in RaceStates :
            LET c == [IdleCaller EXCEPT !.url = url, !.lat = lat, !.lon = lon,
                                        !.country = country, !.state = state,
                                        !.seen = doc]
            IN  IF LocationExists(doc, lat, lon, url)
                THEN /\ run' = [run EXCEPT ![p] = [c EXCEPT !.stage = "done",
                                                            !.outcome = "SkippedDuplicate"]]
                     /\ last' = Call(url, lat, lon, country, state, "SkippedDuplicate",
                                     c.found, <<>>)
                ELSE /\ run' = [run EXCEPT ![p] = [c EXCEPT !.stage = "checked"]]
                     /\ last' = last
    /\ UNCHANGED <<doc, log, nBatch, pc, clip, nGeo>>

\* the second get, the header search on it and the request list built from
\* the indices it gave
RaceRead(p) ==
    /\ pc = "race"
    /\ run[p].stage = "checked"
    /\ nGet' = nGet + 1
    /\ LET c     == run[p]
           found == FindHeaders(doc, c.country, c.state)
       IN  run' = [run EXCEPT ![p] =
                      [c EXCEPT !.stage = "read", !.found = found,
                                !.requests = BuildRequests(found, c.url, c.lat, c.lon,
                                                           c.country, c.state)]]
    /\ UNCHANGED <<doc, calls, last, log, nBatch, pc, clip, nGeo>>

\* batchUpdate with the request list built earlier, on the document as it is
\* now; stale records that the document is no longer the one the duplicate
\* check saw
RaceSubmit(p) ==
    /\ pc = "race"
    /\ run[p].stage = "read"
    /\ nBatch' = nBatch + 1
    /\ LET c   == run[p]
           res == BatchUpdate(doc, c.requests)
           out == IF res.ok THEN "Appended" ELSE "DocumentAccessError"
           cl  == Call(c.url, c.lat, c.lon, c.country, c.state, out, c.found, c.requests)
       IN  /\ doc' = res.doc
           /\ last' = cl
           /\ log' = IF res.ok THEN Append(log, cl) ELSE log
           /\ run' = [run EXCEPT ![p] = [c EXCEPT !.stage = "done", !.outcome = out,
                                                  !.stale = (doc # c.seen)]]
    /\ UNCHANGED <<calls, nGet, pc, clip, nGeo>>

NextRace ==
    \E p \in Callers :
        \/ RaceCheck(p)
        \/ RaceRead(p)
        \/ RaceSubmit(p)

SpecRace == InitRace /\ [][NextRace]_vars

-----------------------------------------------------------------------------
(* Vocabulary of the properties *)

\* paragraphs with their per-character links
ParasFull(d) ==
    LET ps == Paragraphs(d)
    IN  [k \in 1..Len(ps) |->
            [text  |-> ps[k].text,
             style |-> ps[k].style,
             links |-> [i \in 1..Len(ps[k].text) |-> d[ps[k].startIndex + i - 1].link]]]

\* paragraphs of d whose text is exactly label + "\n" in the given style
Headings(d, label, style) ==
    {k \in 1..Len(Paragraphs(d)) :
        /\ Paragraphs(d)[k].text = label \o <<NL>>
        /\ Paragraphs(d)[k].style = style}

\* paragraphs of d whose text contains the text t
ParasContaining(d, t) ==
    {k \in 1..Len(Paragraphs(d)) : Contains(Paragraphs(d)[k].text, t)}

\* paragraphs of d that are exactly the coordinate line of (lat, lon)
LineParas(d, lat, lon) ==
    {k \in 1..Len(Paragraphs(d)) : Paragraphs(d)[k].text = CoordText(lat, lon)}

\* a is b with some elements left out (order kept)
RECURSIVE IsSubseq(_, _)
IsSubseq(a, b) ==
    IF a = <<>> THEN TRUE
    ELSE IF b = <<>> THEN FALSE
    ELSE IF Head(a) = Head(b) THEN IsSubseq(Tail(a), Tail(b))
    ELSE IsSubseq(a, Tail(b))

\* b is a with the element x put in after position k
InsertedAfter(a, b, k, x) ==
    /\ Len(b) = Len(a) + 1
    /\ \A m \in 1..k : b[m] = a[m]
    /\ b[k + 1] = x
    /\ \A m \in (k + 1)..Len(a) : b[m + 1] = a[m]

\* the step is an archive_location call
IsCall == calls' = calls + 1

SameRecord(c1, c2) == c1.url = c2.url /\ c1.lat = c2.lat /\ c1.lon = c2.lon

\* the coordinate line as archive_location means it to be in the document
LinePara(c) ==
    [text  |-> CoordText(c.lat, c.lon),
     style |-> "NORMAL_TEXT",
     links |-> [i \in 1..Len(CoordText(c.lat, c.lon)) |->
                   IF i < Len(CoordText(c.lat, c.lon)) THEN c.url ELSE NoLink]]

HeadingPara(label, style) ==
    [text  |-> label \o <<NL>>,
     style |-> style,
     links |-> [i \in 1..(Len(label) + 1) |-> NoLink]]

-----------------------------------------------------------------------------
(* C1..C8: archive_location *)

\* C1: archiving the same (coordinate, url) again right after it was appended
\* is skipped as a duplicate: no batchUpdate is issued, no request is built,
\* the document is unchanged, and exactly one paragraph holds the coordinate
\* text, a NORMAL_TEXT one.
C1_SecondArchiveSkipped ==
    [][ (IsCall /\ last.outcome = "Appended" /\ SameRecord(last', last))
        => /\ last'.outcome = "SkippedDuplicate"
           /\ last'.requests = <<>>
           /\ nBatch' = nBatch
           /\ doc' = doc
           /\ Cardinality(ParasContaining(doc', CoordStr(last.lat, last.lon))) = 1
           /\ \A k \in ParasContaining(doc', CoordStr(last.lat, last.lon)) :
                 Paragraphs(doc')[k].style = "NORMAL_TEXT" ]_vars

\* a record was appended and the same (coordinate, url) was then skipped
C1_Witness ==
    /\ last.outcome = "SkippedDuplicate"
    /\ log # <<>>
    /\ SameRecord(log[Len(log)], last)
    /\ nBatch = Len(log)

\* both headers were found by the call's header search
BothFound(c) == c.found.country_index # NoIndex /\ c.found.state_index # NoIndex

\* index, among the paragraphs of d, of the one starting at start
ParaAt(d, start) == CHOOSE k \in 1..Len(Paragraphs(d)) : Paragraphs(d)[k].startIndex = start

\* C2 (as stated): two different coordinates archived under the same country
\* and state, the headers already existing at the second call, leave exactly
\* one HEADING_1 country paragraph, one HEADING_2 state paragraph and the two
\* coordinate lines after the state heading in arrival order.
C2_ArrivalOrder ==
    \A i, j \in 1..Len(log) :
        ( /\ i < j
          /\ log[i].country = log[j].country
          /\ log[i].state = log[j].state
          /\ BothFound(log[j])
          /\ calls = j )
        => /\ Cardinality(Headings(doc, log[j].country, "HEADING_1")) = 1
           /\ Cardinality(Headings(doc, log[j].state, "HEADING_2")) = 1
           /\ \E h \in Headings(doc, log[j].state, "HEADING_2") :
              \E a \in LineParas(doc, log[i].lat, log[i].lon) :
              \E b \in LineParas(doc, log[j].lat, log[j].lon) :
                 h < a /\ a < b

\* paragraphs of d whose stripped text is the label
Labelled(d, label) ==
    {k \in 1..Len(Paragraphs(d)) : Strip(Paragraphs(d)[k].text) = label}

\* C2 (amended): when the document holds a country header and exactly one
\* state header, a paragraph with just the state label, a call for a new
\* coordinate under them changes the document by one paragraph only: its
\* hyperlinked NORMAL_TEXT coordinate line, placed right after the state
\* heading and so ahead of every line archived there before.  No heading is
\* added, removed or changed.
C2_NewestFirst ==
    [][ ( /\ IsCall
          /\ last'.outcome = "Appended"
          /\ last'.country # last'.state
          /\ Labelled(doc, last'.country) # {}
          /\ Cardinality(Labelled(doc, last'.state)) = 1
          /\ \A k \in Labelled(doc, last'.state) :
                Paragraphs(doc)[k].text = last'.state \o <<NL>> )
        => \A k \in Labelled(doc, last'.state) :
              InsertedAfter(ParasFull(doc), ParasFull(doc'), k, LinePara(last')) ]_vars

\* two lines archived under the same existing headers stand right after the
\* state heading, the later one first
C2_Witness ==
    /\ Len(log) = 2
    /\ last = log[2]
    /\ BothFound(log[2])
    /\ log[1].country = log[2].country
    /\ log[1].state = log[2].state
    /\ \E h \in Headings(doc, log[2].state, "HEADING_2") :
          /\ Cardinality(Headings(doc, log[2].country, "HEADING_1")) = 1
          /\ Cardinality(Headings(doc, log[2].state, "HEADING_2")) = 1
          /\ ParasFull(doc)[h + 1] = LinePara(log[2])
          /\ ParasFull(doc)[h + 2] = LinePara(log[1])

\* C3: for every country archived exactly one HEADING_1 paragraph holds it,
\* and for every state archived exactly one HEADING_2 paragraph holds it.
C3_OneHeadingPerLabel ==
    \A i \in 1..Len(log) :
        /\ Cardinality(Headings(doc, log[i].country, "HEADING_1")) = 1
        /\ Cardinality(Headings(doc, log[i].state, "HEADING_2")) = 1

\* C4: after a batch is applied, a country line inserted by it is the first
\* paragraph, a state line inserted by it follows the country heading
\* paragraph directly, and the coordinate line is a paragraph of its own
\* directly after the state heading paragraph.
C4_OffsetsAccountForInserts ==
    last.outcome = "Appended" =>
        LET ps == Paragraphs(doc)
        IN  /\ last.found.country_index = NoIndex
                => ps[1].text = last.country \o <<NL>>
            /\ last.found.state_index = NoIndex
                => \E k \in 1..(Len(ps) - 1) :
                      /\ ps[k].text = last.country \o <<NL>>
                      /\ ps[k + 1].text = last.state \o <<NL>>
            /\ \E k \in 1..(Len(ps) - 1) :
                  /\ ps[k].text = last.state \o <<NL>>
                  /\ ps[k + 1].text = CoordText(last.lat, last.lon)

\* C5: a call only adds paragraphs: every paragraph there before the call is
\* there after it with the same text, style and links, in the same order.
C5_OnlyAppends ==
    [][ IsCall => IsSubseq(ParasFull(doc), ParasFull(doc')) ]_vars

\* C6: a call carrying the url of a record appended earlier is skipped, so
\* no appended record shares its url with an earlier appended record.
C6_SameUrlSkipped ==
    last.outcome = "Appended" =>
        \A i \in 1..(Len(log) - 1) : log[i].url # last.url

\* C7: the first call on the empty document appends, and the document then
\* holds, in order, a HEADING_1 paragraph with the country, a HEADING_2
\* paragraph with the state, the NORMAL_TEXT coordinate line linked to the url
\* on exactly its coordinate text, and the empty paragraph it started with.
C7_FirstArchive ==
    calls = 1 =>
        /\ last.outcome = "Appended"
        /\ Len(last.requests) = 7
        /\ ParasFull(doc) = << HeadingPara(last.country, "HEADING_1"),
                               HeadingPara(last.state, "HEADING_2"),
                               LinePara(last),
                               ParasFull(EmptyDoc)[1] >>

\* the first call was made, here with a state named like its country and a
\* negative latitude
C7_Witness ==
    /\ calls = 1
    /\ last.outcome = "Appended"
    /\ last.country = last.state
    /\ last.lat.neg
    /\ Len(Paragraphs(doc)) = 4

\* characters of d linked to url
Linked(d, url) == {i \in 1..Len(d) : d[i].link = url}

\* paragraphs of d in the given style
Styled(d, style) == {i \in NLPositions(d) : d[i].style = style}

\* where the call's batch inserted its coordinate text
CoordInsertIndex(c) == c.requests[Len(c.requests) - 2].startIndex

\* C8: the appended coordinate line is a NORMAL_TEXT paragraph of its own
\* whose coordinate text, without the newline, is linked to the url; the
\* batch links no other character and restyles no other paragraph to
\* NORMAL_TEXT.
C8_LinkAndStyleExact ==
    [][ (IsCall /\ last'.outcome = "Appended")
        => LET at == CoordInsertIndex(last')
               n  == Len(CoordStr(last'.lat, last'.lon))
           IN  /\ TextOf(doc', at, at + n) = CoordText(last'.lat, last'.lon)
               /\ \A i \in at..(at + n - 1) : doc'[i].link = last'.url
               /\ doc'[at + n].link # last'.url
               /\ ParaStartOf(doc', at) = at
               /\ doc'[at + n].style = "NORMAL_TEXT"
               /\ Cardinality(Linked(doc', last'.url))
                     = Cardinality(Linked(doc, last'.url)) + n
               /\ Cardinality(Styled(doc', "NORMAL_TEXT"))
                     = Cardinality(Styled(doc, "NORMAL_TEXT")) + 1 ]_vars

-----------------------------------------------------------------------------
(* C9: the pipeline of the entry points *)

GeoErrors == {"TransportError", "GeocodingError", "NoResultsError", "IncompleteLocationError"}

\* C9: a failed extraction ends the run with no geocoding request and no
\* document read or write; a failed resolution ends it with no document
\* read or write; each stage, and the geocoding request, happens at most
\* once in a run.
C9_FailureAborts ==
    /\ run.extract = "ExtractionError"
          => /\ pc = "done"
             /\ run.nResolve = 0 /\ run.nArchive = 0
             /\ nGeo = 0 /\ nGet = 0 /\ nBatch = 0
             /\ doc = run.doc0
    /\ run.resolve \in GeoErrors
          => /\ pc = "done"
             /\ run.nArchive = 0
             /\ nGet = 0 /\ nBatch = 0
             /\ doc = run.doc0
    /\ run.archive = "DocumentAccessError" => pc = "done" /\ doc = run.doc0
    /\ run.nExtract <= 1 /\ run.nResolve <= 1 /\ run.nArchive <= 1
    /\ nGeo <= 1 /\ nBatch <= 1

\* a run whose extraction succeeded and whose resolution failed has ended
C9_Witness ==
    /\ pc = "done"
    /\ run.extract = "ok"
    /\ run.resolve = "IncompleteLocationError"
    /\ nGeo = 1

-----------------------------------------------------------------------------
(* C10: extract_coordinates *)

\* C10: a URL with an "@lat,lon" pair (numbers written with a decimal point)
\* yields that pair, whether a "!3d..!4d.." pair is present too, before or
\* after it; a URL with only the "!3d..!4d.." pair yields that pair; a URL
\* with neither fails.
C10_AtFormFirst ==
    pc = "extracted" =>
        IF run.at.kind = "pair"
        THEN run.result = [ok |-> TRUE, lat |-> run.at.lat, lon |-> run.at.lon]
        ELSE IF run.bang.kind = "pair"
        THEN run.result = [ok |-> TRUE, lat |-> run.bang.lat, lon |-> run.bang.lon]
        ELSE ~run.result.ok

\* a URL holding both forms, the "!3d..!4d.." one first, was extracted
C10_Witness ==
    /\ pc = "extracted"
    /\ run.at.kind = "pair"
    /\ run.bang.kind = "pair"
    /\ ~run.atFirst
    /\ run.result.ok
    /\ run.result.lat = run.at.lat
    /\ run.result.lat # run.bang.lat

-----------------------------------------------------------------------------
(* get_location_info *)

\* the kind the order of the checks gives an assembled answer
ExpectedKind ==
    IF ~run.http_ok THEN "TransportError"
    ELSE IF run.status # "OK" THEN "GeocodingError"
    ELSE IF ~run.list.some THEN "NoResultsError"
    ELSE IF run.list.c.count = 0 \/ run.list.a.count = 0 THEN "IncompleteLocationError"
    ELSE "none"

(* C11: get_location_info classifies a failure by the first of these that   *)
(* applies: the HTTP exchange failed (transport error); the body's status   *)
(* is not OK (geocoding error); the result list is empty (no results); the  *)
(* first result lacks a country component or an                            *)
(* administrative_area_level_1 component (incomplete location). The four   *)
(* kinds are distinct, and a first result with a country but without a     *)
(* state component fails as incomplete instead of returning labels.        *)
C11_FailureOrder ==
    pc = "resolved" =>
        /\ run.result.error = ExpectedKind
        /\ run.result.error # "none" => run.result.country = <<>> /\ run.result.state = <<>>

\* an OK answer whose first result has a country but no state component has
\* been classified as incomplete
C11_Witness ==
    /\ pc = "resolved"
    /\ run.http_ok /\ run.status = "OK" /\ run.list.some
    /\ run.list.c.count = 1 /\ run.list.a.count = 0
    /\ run.result.error = "IncompleteLocationError"

(* C12: get_location_info reads only the first result of the answer, and    *)
(* returns the long name of the first component typed country and of the   *)
(* first component typed administrative_area_level_1, also when the result *)
(* has several components of one type.                                     *)
C12_FirstComponentWins ==
    (pc = "resolved" /\ run.result.error = "none") =>
        /\ run.result.country = run.list.c.first
        /\ run.result.state = run.list.a.first

-----------------------------------------------------------------------------
(* archive_location: header search and the batch                            *)

\* how many requests of a batch insert text
TextInsertions(reqs) == Cardinality({k \in 1..Len(reqs) : reqs[k].op = "insertText"})

\* how many of the two labels no paragraph of d carries
MissingHeaders(d, country, state) ==
    (IF Labelled(d, country) = {} THEN 1 ELSE 0)
    + (IF Labelled(d, state) = {} THEN 1 ELSE 0)

(* C13: whenever a paragraph of the document has the state label as its     *)
(* trimmed text, a call that is no duplicate finds the state anchor at the  *)
(* start of such a paragraph and its batch inserts no state heading, also  *)
(* when the state label equals the country label.                          *)
C13_StateAnchorIndependent ==
    [][ ( /\ IsCall
          /\ last'.outcome # "SkippedDuplicate"
          /\ Labelled(doc, last'.state) # {} )
        => ( /\ \E k \in Labelled(doc, last'.state) :
                    last'.found.state_index = Paragraphs(doc)[k].startIndex
             /\ \A k \in 1..Len(last'.requests) :
                    last'.requests[k].style # "HEADING_2" ) ]_vars

(* C14: a call that is no duplicate submits exactly one batch, with one     *)
(* text insertion when the document carries both labels, two when it       *)
(* carries exactly one of them and three when it carries neither; a        *)
(* duplicate call builds no request and submits no batch.                  *)
C14_OneBatchSizedByMissingHeaders ==
    [][ IsCall =>
          IF last'.outcome = "SkippedDuplicate"
          THEN nBatch' = nBatch /\ last'.requests = <<>>
          ELSE /\ nBatch' = nBatch + 1
               /\ TextInsertions(last'.requests)
                    = 1 + MissingHeaders(doc, last'.country, last'.state) ]_vars

-----------------------------------------------------------------------------
(* Two callers *)

\* the document has two paragraphs that are the coordinate line of caller p
TwoLinesOf(p) ==
    Cardinality({k \in 1..Len(Paragraphs(doc)) :
                    Paragraphs(doc)[k].text = CoordText(run[p].lat, run[p].lon)}) >= 2

\* the document has two identical headings for a label of caller p
TwoHeadingsOf(p) ==
    \/ Cardinality(Headings(doc, run[p].country, "HEADING_1")) >= 2
    \/ Cardinality(Headings(doc, run[p].state, "HEADING_2")) >= 2

(* C15: the duplicate check, the header read and the batch update of        *)
(* archive_location are separate remote calls without a lock, so the calls *)
(* of two callers can interleave: both pass the duplicate check for the    *)
(* same record and both find the same header missing, and the document     *)
(* ends with two identical coordinate lines and two identical headings.    *)
(* Such a document arises in no other way: it needs a batch submitted to a *)
(* document that changed after the submitting caller's duplicate check.    *)
C15_DuplicatesOnlyByInterleaving ==
    /\ nGet = Cardinality({p \in Callers : run[p].stage # "idle"})
              + Cardinality({p \in Callers : run[p].stage = "read"
                                             \/ run[p].outcome \in {"Appended", "DocumentAccessError"}})
    /\ nBatch = Cardinality({p \in Callers :
                                run[p].outcome \in {"Appended", "DocumentAccessError"}})
    /\ (\E p \in Callers : run[p].stage # "idle" /\ (TwoLinesOf(p) \/ TwoHeadingsOf(p)))
          => \E q \in Callers : run[q].stage = "done" /\ run[q].stale

\* both callers passed the duplicate check for the same record, both found
\* the country and the state header missing, both batches were applied, and
\* the document has the coordinate line twice and a heading twice
C15_Witness ==
    /\ pc = "race"
    /\ \A p \in Callers :
          /\ run[p].outcome = "Appended"
          /\ run[p].found = [country_index |-> NoIndex, state_index |-> NoIndex]
          /\ TwoLinesOf(p)
          /\ TwoHeadingsOf(p)
    /\ \A p, q \in Callers :
          /\ run[p].url = run[q].url
          /\ CoordText(run[p].lat, run[p].lon) = CoordText(run[q].lat, run[q].lon)
          /\ run[p].country = run[q].country /\ run[p].state = run[q].state

-----------------------------------------------------------------------------
(* Entry points *)

\* the pipeline is at work on a string
InPipeline == pc \in {"extract", "resolve", "archive"}

(* C16: in one run of an entry point each stage of the pipeline is entered  *)
(* at most once, and only with a string that contains "google.com/maps";   *)
(* while the stripped clipboard holds no such string a turn of the         *)
(* clipboard loop leaves the program polling; once a string has entered    *)
(* the pipeline the program never polls again, it reaches its end          *)
(* whatever the outcome of the stages, and at its end nothing more         *)
(* happens.                                                                *)
C16_OneUrlPerRun ==
    /\ [](/\ run.nExtract <= 1 /\ run.nResolve <= 1 /\ run.nArchive <= 1
          /\ (InPipeline \/ run.nExtract > 0) => Contains(run.url, MapsMarker)
          /\ (pc = "done" /\ run.nExtract = 0) => run.entry = "hotkey")
    /\ [][ /\ (pc = "poll" /\ run.entry = "clipboard"
                /\ ~Contains(Strip(clip), MapsMarker)) => pc' = "poll"
           /\ pc # "poll" => pc' # "poll"
           /\ InPipeline => pc' # pc
           /\ pc # "done" ]_vars
    /\ InPipeline ~> (pc = "done")

\* the clipboard watcher has ended after one URL that was skipped as a
\* duplicate
C16_Witness ==
    /\ pc = "done"
    /\ run.entry = "clipboard"
    /\ run.nExtract = 1 /\ run.nResolve = 1 /\ run.nArchive = 1
    /\ run.archive = "SkippedDuplicate"

(* C17: archive_location skips a record only when an archived record has   *)
(* the same formatted coordinate text or the same url; a record that       *)
(* differs from every archived record in both is appended, also when its   *)
(* coordinate text is part of an archived line.                            *)
C17_SkipsOnlyTrueDuplicates ==
    last.outcome = "SkippedDuplicate" =>
        \E i \in 1..Len(log) :
            \/ log[i].url = last.url
            \/ CoordStr(log[i].lat, log[i].lon) = CoordStr(last.lat, last.lon)

====
